---- MODULE Spec2Model ----
(***************************************************************************)
(* Model of src/util.py: visualize_poses, the function that composes a     *)
(* py3Dmol view from a protein file, a pose file and an optional cognate   *)
(* file.  One call of the function is one behaviour: Init draws the        *)
(* arguments and the file system, every statement of the body is one       *)
(* action, and pc is the position in the body.                             *)
(*                                                                         *)
(* The view is modelled by the directives it receives (calls) and by the   *)
(* models it holds (models).  A model's index is its load position         *)
(* (0-based), a selector without 'model' selects every loaded model,       *)
(* setStyle replaces the style of what it selects, addStyle adds to it.    *)
(***************************************************************************)
EXTENDS Integers, Sequences, FiniteSets, TLC

(* ---------------------------- bounds ----------------------------------- *)
MaxHighlights == 2
MaxRecords == 2

Residues == {45, 102}
Colors == {"red", "green"}

(* ------------------------- Python values ------------------------------- *)
\* Optional arguments: None is the empty tuple, a given value x is <<x>>.
None == <<>>
Some(x) == <<x>>
IsNone(o) == o = None
Get(o) == o[1]

\* Truth value of an optional string argument: None and "" are false.
TruthyStr(o) == ~IsNone(o) /\ Get(o) # ""
\* Truth value of an optional list argument: None and [] are false.
TruthyList(o) == ~IsNone(o) /\ Len(Get(o)) > 0

\* str(res) for a residue number
Str(n) == ToString(n)

\* f'{color}Carbon'
CarbonScheme(color) == color \o "Carbon"

(* --------------------------- file system ------------------------------- *)
ProteinPath == "protein.pdb"
PosePath == "poses.sdf"
CognatePath == "cognate.pdb"
Paths == {ProteinPath, PosePath, CognatePath}

\* f.read(): the text of a file, with the number of records it holds.
FileContent(path, nrec) == [text |-> path, records |-> nrec]

(* ------------------------- view directives ----------------------------- *)
NoData == [text |-> "", records |-> 0]
AllAtoms == [model |-> None, resi |-> None]
ModelSel(m) == [model |-> Some(m), resi |-> None]

StyleSpec(rep, opts) == [rep |-> rep, opts |-> opts]

Call(op, sel, style, data, num) ==
    [op |-> op, sel |-> sel, style |-> style, data |-> data, num |-> num]

VARIABLES
    pc,                 \* position in the body of visualize_poses
    fs,                 \* the readable files: path -> content
    protein_file, pose_file, cognate_file, animate,
    cognate_color, pose_color, highlight_residues,
    calls,              \* directives issued to the view, in order
    models,             \* the models the view holds, in index order
    reads,              \* the files read so far, in order
    k,                  \* position of the highlight loop
    model_offset, pose_content, zoom_model,
    outcome,            \* "running", "returned" or "raised"
    given               \* the colours as the caller passed them

vars == <<pc, fs, protein_file, pose_file, cognate_file, animate,
          cognate_color, pose_color, highlight_residues, calls, models,
          reads, k, model_offset, pose_content, zoom_model, outcome, given>>

args == <<fs, given, protein_file, pose_file, cognate_file, animate,
          highlight_residues>>
colors == <<cognate_color, pose_color>>
locals == <<k, model_offset, pose_content, zoom_model>>


(* --------------------------- the view ---------------------------------- *)
DefaultStyle == {StyleSpec("line", {})}

NewModel(content, frames) ==
    [text |-> content.text, frames |-> frames,
     style |-> DefaultStyle, overlays |-> {}]

\* addModel: one model, made of the first record of the text
ViewAddModel(ms, content) == Append(ms, NewModel(content, 1))

\* addModelsAsFrames: one model, every record of the text a frame of it
ViewAddModelsAsFrames(ms, content) ==
    Append(ms, NewModel(content, content.records))

\* the model with 0-based index i is selected by sel
Selects(sel, i) == IsNone(sel.model) \/ Get(sel.model) = i

\* setStyle(sel, style) with a selector that names no residue
ViewSetStyle(ms, sel, style) ==
    [i \in 1..Len(ms) |->
        IF Selects(sel, i - 1)
        THEN [ms[i] EXCEPT !.style = style, !.overlays = {}]
        ELSE ms[i]]

\* addStyle(sel, style)
ViewAddStyle(ms, sel, style) ==
    [i \in 1..Len(ms) |->
        IF ~Selects(sel, i - 1) THEN ms[i]
        ELSE IF IsNone(sel.resi)
        THEN [ms[i] EXCEPT !.style = @ \cup style]
        ELSE [ms[i] EXCEPT !.overlays =
                 @ \cup {[resi |-> Get(sel.resi), spec |-> sp] : sp \in style}]]

(* ------------------ the expressions of visualize_poses ----------------- *)
\* faulty variant of ResolveColor: the given colour is ignored
ResolveColorDefaultOnly(c, default) == default

\* lines 40-43: a colour that is None takes its default
ResolveColor(c, default) == IF IsNone(c) THEN default ELSE Get(c)

\* line 53: {'cartoon': {}, 'stick': {'radius': 0.1}}
ProteinStyle ==
    {StyleSpec("cartoon", {}), StyleSpec("stick", {<<"radius", "0.1">>})}

\* line 58: {'model': 0, 'resi': str(res)}
HighlightSel(res) == [model |-> Some(0), resi |-> Some(Str(res))]

\* line 59: {'sphere': {'color': 'magenta', 'opacity': 0.7, 'scale': 0.7}}
HighlightStyle ==
    {StyleSpec("sphere", {<<"color", "magenta">>, <<"opacity", "0.7">>,
                          <<"scale", "0.7">>})}

\* faulty variant of CognateSel: the selector is left out
CognateSelAll == AllAtoms

\* line 65: {'model': 1}
CognateSel == ModelSel(1)

\* line 65: {'stick': {'colorscheme': f'{cognate_color}Carbon', 'radius': 0.25}}
CognateStyle(color) ==
    {StyleSpec("stick", {<<"colorscheme", CarbonScheme(color)>>,
                         <<"radius", "0.25">>})}

\* line 68: model_offset = 1 if cognate_file else 0
ModelOffset(cog) == IF TruthyStr(cog) THEN 1 ELSE 0

\* faulty variant of TakesAnimateBranch: the flag is not consulted
AlwaysAnimates(a) == TRUE

\* line 72: if animate
TakesAnimateBranch(a) == a

\* faulty variant of PoseSel: {'model': model_offset}
PoseSelNoShift(off) == ModelSel(off)

\* lines 75, 80: {'model': model_offset + 1}
PoseSel(off) == ModelSel(off + 1)

\* lines 75, 80: {'stick': {'colorscheme': f'{pose_color}Carbon'}}
PoseStyle(color) ==
    {StyleSpec("stick", {<<"colorscheme", CarbonScheme(color)>>})}

\* line 76: {'interval': 1000}
AnimateInterval == 1000

\* faulty variant of ZoomModel: without a cognate, zoom to model_offset
ZoomModelNoShift(cog, off) == IF TruthyStr(cog) THEN 1 ELSE off

\* lines 83-88: the model to zoom to
ZoomModel(cog, off) == IF TruthyStr(cog) THEN 1 ELSE off + 1

\* line 91: v.rotate(270)
RotateAngle == 270

(* ------------------------------ Init ----------------------------------- *)
OptionOf(S) == {None} \cup {Some(x) : x \in S}

SeqsUpTo(S, n) == UNION {[1..m -> S] : m \in 0..n}

Init ==
    /\ pc = "resolve_colors"
    /\ \E readable \in SUBSET Paths, nrec \in 1..MaxRecords :
          fs = [p \in readable |->
                   FileContent(p, IF p = PosePath THEN nrec ELSE 1)]
    /\ protein_file = ProteinPath
    /\ pose_file = PosePath
    /\ cognate_file \in OptionOf({"", CognatePath})
    /\ animate \in BOOLEAN
    /\ given \in [cognate_color : OptionOf(Colors),
                  pose_color : OptionOf(Colors)]
    /\ cognate_color = given.cognate_color
    /\ pose_color = given.pose_color
    /\ highlight_residues \in OptionOf(SeqsUpTo(Residues, MaxHighlights))
    /\ calls = <<>>
    /\ models = <<>>
    /\ reads = <<>>
    /\ k = 1
    /\ model_offset = 0
    /\ pose_content = NoData
    /\ zoom_model = 0
    /\ outcome = "running"


(* ----------------------------- actions --------------------------------- *)
Readable(path) == path \in DOMAIN fs

Goto(label) == pc' = label /\ outcome' = outcome

\* open() raises: the exception leaves visualize_poses
Raise == pc' = "raised" /\ outcome' = "raised"

\* lines 40-43
ResolveColors ==
    /\ pc = "resolve_colors"
    /\ cognate_color' = Some(ResolveColor(cognate_color, "yellow"))
    /\ pose_color' = Some(ResolveColor(pose_color, "green"))
    /\ Goto("create_view")
    /\ UNCHANGED <<args, calls, models, reads, locals>>

\* faulty variant of CreateView: the protein style is issued before the
\* protein file is read
CreateViewStyleFirst ==
    /\ pc = "create_view"
    /\ calls' = <<Call("setStyle", AllAtoms, ProteinStyle, NoData, 0)>>
    /\ models' = <<>>
    /\ Goto("add_protein")
    /\ UNCHANGED <<args, colors, reads, locals>>

\* line 46: v = py3Dmol.view()
CreateView ==
    /\ pc = "create_view"
    /\ calls' = <<>>
    /\ models' = <<>>
    /\ Goto("add_protein")
    /\ UNCHANGED <<args, colors, reads, locals>>

\* lines 49-50: with open(protein_file) as f: v.addModel(f.read())
AddProtein ==
    /\ pc = "add_protein"
    /\ Readable(protein_file)
    /\ reads' = Append(reads, protein_file)
    /\ calls' = Append(calls, Call("addModel", AllAtoms, {},
                                   fs[protein_file], 0))
    /\ models' = ViewAddModel(models, fs[protein_file])
    /\ Goto("style_protein")
    /\ UNCHANGED <<args, colors, locals>>

\* line 49: open(protein_file) fails
ProteinReadFails ==
    /\ pc = "add_protein"
    /\ ~Readable(protein_file)
    /\ Raise
    /\ UNCHANGED <<args, colors, calls, models, reads, locals>>

\* line 53: v.setStyle({'cartoon': {}, 'stick': {'radius': 0.1}})
StyleProtein ==
    /\ pc = "style_protein"
    /\ calls' = Append(calls, Call("setStyle", AllAtoms, ProteinStyle,
                                   NoData, 0))
    /\ models' = ViewSetStyle(models, AllAtoms, ProteinStyle)
    /\ Goto("highlight")
    /\ UNCHANGED <<args, colors, reads, locals>>

\* faulty variant of HighlightHasNext: the last residue is left out
HighlightStopsEarly(hl, i) == TruthyList(hl) /\ i < Len(Get(hl))

\* lines 56-57: the list is given, not empty, and has a k-th residue
HighlightHasNext(hl, i) == TruthyList(hl) /\ i <= Len(Get(hl))

\* lines 57-59: one pass of the loop over highlight_residues
HighlightResidue ==
    /\ pc = "highlight"
    /\ HighlightHasNext(highlight_residues, k)
    /\ LET res == Get(highlight_residues)[k] IN
          /\ calls' = Append(calls, Call("addStyle", HighlightSel(res),
                                         HighlightStyle, NoData, 0))
          /\ models' = ViewAddStyle(models, HighlightSel(res), HighlightStyle)
    /\ k' = k + 1
    /\ Goto("highlight")
    /\ UNCHANGED <<args, colors, reads, model_offset, pose_content,
                   zoom_model>>

\* lines 56-57: no list, an empty list, or the loop is over
HighlightDone ==
    /\ pc = "highlight"
    /\ ~HighlightHasNext(highlight_residues, k)
    /\ Goto("cognate")
    /\ UNCHANGED <<args, colors, calls, models, reads, locals>>

\* lines 62-64: with open(cognate_file) as f: v.addModel(f.read())
AddCognate ==
    /\ pc = "cognate"
    /\ TruthyStr(cognate_file)
    /\ Readable(Get(cognate_file))
    /\ reads' = Append(reads, Get(cognate_file))
    /\ calls' = Append(calls, Call("addModel", AllAtoms, {},
                                   fs[Get(cognate_file)], 0))
    /\ models' = ViewAddModel(models, fs[Get(cognate_file)])
    /\ Goto("style_cognate")
    /\ UNCHANGED <<args, colors, locals>>

\* faulty variant of CognateReadFails: the exception is swallowed and the
\* body goes on without the cognate
CognateReadSwallowed ==
    /\ pc = "cognate"
    /\ TruthyStr(cognate_file)
    /\ ~Readable(Get(cognate_file))
    /\ Goto("offset")
    /\ UNCHANGED <<args, colors, calls, models, reads, locals>>

\* line 63: open(cognate_file) fails
CognateReadFails ==
    /\ pc = "cognate"
    /\ TruthyStr(cognate_file)
    /\ ~Readable(Get(cognate_file))
    /\ Raise
    /\ UNCHANGED <<args, colors, calls, models, reads, locals>>

\* line 62: cognate_file is None or ""
SkipCognate ==
    /\ pc = "cognate"
    /\ ~TruthyStr(cognate_file)
    /\ Goto("offset")
    /\ UNCHANGED <<args, colors, calls, models, reads, locals>>

\* line 65
StyleCognate ==
    /\ pc = "style_cognate"
    /\ calls' = Append(calls, Call("setStyle", CognateSel,
                                   CognateStyle(Get(cognate_color)),
                                   NoData, 0))
    /\ models' = ViewSetStyle(models, CognateSel,
                              CognateStyle(Get(cognate_color)))
    /\ Goto("offset")
    /\ UNCHANGED <<args, colors, reads, locals>>

\* line 68
SetModelOffset ==
    /\ pc = "offset"
    /\ model_offset' = ModelOffset(cognate_file)
    /\ Goto("read_pose")
    /\ UNCHANGED <<args, colors, calls, models, reads, k, pose_content,
                   zoom_model>>

\* lines 69-70: with open(pose_file) as f: pose_content = f.read()
ReadPose ==
    /\ pc = "read_pose"
    /\ Readable(pose_file)
    /\ reads' = Append(reads, pose_file)
    /\ pose_content' = fs[pose_file]
    /\ Goto("add_pose")
    /\ UNCHANGED <<args, colors, calls, models, k, model_offset, zoom_model>>

\* line 69: open(pose_file) fails
PoseReadFails ==
    /\ pc = "read_pose"
    /\ ~Readable(pose_file)
    /\ Raise
    /\ UNCHANGED <<args, colors, calls, models, reads, locals>>

\* lines 72-74: v.addModelsAsFrames(pose_content)
AddPoseFrames ==
    /\ pc = "add_pose"
    /\ TakesAnimateBranch(animate)
    /\ calls' = Append(calls, Call("addModelsAsFrames", AllAtoms, {},
                                   pose_content, 0))
    /\ models' = ViewAddModelsAsFrames(models, pose_content)
    /\ Goto("style_frames")
    /\ UNCHANGED <<args, colors, reads, locals>>

\* line 75
StylePoseFrames ==
    /\ pc = "style_frames"
    /\ calls' = Append(calls, Call("setStyle", PoseSel(model_offset),
                                   PoseStyle(Get(pose_color)), NoData, 0))
    /\ models' = ViewSetStyle(models, PoseSel(model_offset),
                              PoseStyle(Get(pose_color)))
    /\ Goto("animate")
    /\ UNCHANGED <<args, colors, reads, locals>>

\* line 76: v.animate({'interval': 1000})
Animate ==
    /\ pc = "animate"
    /\ calls' = Append(calls, Call("animate", AllAtoms, {}, NoData,
                                   AnimateInterval))
    /\ Goto("select_zoom")
    /\ UNCHANGED <<args, colors, models, reads, locals>>

\* faulty variant of AddPoseModel: every record is added as a model
AddPoseModelPerRecord ==
    /\ pc = "add_pose"
    /\ ~TakesAnimateBranch(animate)
    /\ LET one == Call("addModel", AllAtoms, {}, pose_content, 0) IN
          calls' = calls \o [j \in 1..pose_content.records |-> one]
    /\ models' = models \o
          [j \in 1..pose_content.records |-> NewModel(pose_content, 1)]
    /\ Goto("style_pose")
    /\ UNCHANGED <<args, colors, reads, locals>>

\* lines 77-79: v.addModel(pose_content)
AddPoseModel ==
    /\ pc = "add_pose"
    /\ ~TakesAnimateBranch(animate)
    /\ calls' = Append(calls, Call("addModel", AllAtoms, {}, pose_content, 0))
    /\ models' = ViewAddModel(models, pose_content)
    /\ Goto("style_pose")
    /\ UNCHANGED <<args, colors, reads, locals>>

\* line 80
StylePoseModel ==
    /\ pc = "style_pose"
    /\ calls' = Append(calls, Call("setStyle", PoseSel(model_offset),
                                   PoseStyle(Get(pose_color)), NoData, 0))
    /\ models' = ViewSetStyle(models, PoseSel(model_offset),
                              PoseStyle(Get(pose_color)))
    /\ Goto("select_zoom")
    /\ UNCHANGED <<args, colors, reads, locals>>

\* lines 83-88
SelectZoom ==
    /\ pc = "select_zoom"
    /\ zoom_model' = ZoomModel(cognate_file, model_offset)
    /\ Goto("zoom")
    /\ UNCHANGED <<args, colors, calls, models, reads, k, model_offset,
                   pose_content>>

\* faulty variant of ZoomTo: the rotation that follows is left out
ZoomToWithoutRotate ==
    /\ pc = "zoom"
    /\ calls' = Append(calls, Call("zoomTo", ModelSel(zoom_model), {},
                                   NoData, 0))
    /\ Goto("return")
    /\ UNCHANGED <<args, colors, models, reads, locals>>

\* line 90: v.zoomTo({'model': zoom_model})
ZoomTo ==
    /\ pc = "zoom"
    /\ calls' = Append(calls, Call("zoomTo", ModelSel(zoom_model), {},
                                   NoData, 0))
    /\ Goto("rotate")
    /\ UNCHANGED <<args, colors, models, reads, locals>>

\* line 91: v.rotate(270)
Rotate ==
    /\ pc = "rotate"
    /\ calls' = Append(calls, Call("rotate", AllAtoms, {}, NoData,
                                   RotateAngle))
    /\ Goto("return")
    /\ UNCHANGED <<args, colors, models, reads, locals>>

\* line 93: return v
Return ==
    /\ pc = "return"
    /\ pc' = "done"
    /\ outcome' = "returned"
    /\ UNCHANGED <<args, colors, calls, models, reads, locals>>

Next ==
    \/ ResolveColors \/ CreateView
    \/ AddProtein \/ ProteinReadFails \/ StyleProtein
    \/ HighlightResidue \/ HighlightDone
    \/ AddCognate \/ CognateReadFails \/ SkipCognate \/ StyleCognate
    \/ SetModelOffset \/ ReadPose \/ PoseReadFails
    \/ AddPoseFrames \/ StylePoseFrames \/ Animate
    \/ AddPoseModel \/ StylePoseModel
    \/ SelectZoom \/ ZoomTo \/ Rotate \/ Return

Spec == Init /\ [][Next]_vars


(* ===================== vocabulary of the properties ==================== *)
Range(q) == {q[i] : i \in 1..Len(q)}
Positions(op) == {i \in 1..Len(calls) : calls[i].op = op}
Count(op) == Cardinality(Positions(op))

IsLoad(c) == c.op \in {"addModel", "addModelsAsFrames"}
Loads == SelectSeq(calls, IsLoad)
\* the number of models loaded before the i-th directive is issued
LoadedBefore(i) == Len(SelectSeq(SubSeq(calls, 1, i - 1), IsLoad))
\* the file whose text became the model with (0-based) index m
EntityOf(m) == Loads[m + 1].data.text

CognateGiven == TruthyStr(cognate_file)
Returned == outcome = "returned"

Reps(style) == {sp.rep : sp \in style}
Opt(style, key) == {o[2] : o \in {x \in UNION {sp.opts : sp \in style} : x[1] = key}}
HasOpt(style, key) == Opt(style, key) # {}

IsProteinStyleCall(c) == c.op = "setStyle" /\ "cartoon" \in Reps(c.style)
IsHighlightCall(c) == c.op = "addStyle"
IsCognateStyleCall(c) ==
    c.op = "setStyle" /\ Reps(c.style) = {"stick"} /\ Opt(c.style, "radius") = {"0.25"}
IsPoseStyleCall(c) ==
    c.op = "setStyle" /\ Reps(c.style) = {"stick"} /\ ~HasOpt(c.style, "radius")
IsStyleCall(c) == c.op \in {"setStyle", "addStyle"}

ExpectedEntities ==
    IF CognateGiven THEN <<protein_file, Get(cognate_file), pose_file>>
    ELSE <<protein_file, pose_file>>

IntendedEntity(c) ==
    IF IsHighlightCall(c) THEN {protein_file}
    ELSE IF IsCognateStyleCall(c) THEN {Get(cognate_file)}
    ELSE IF IsPoseStyleCall(c) THEN {pose_file}
    ELSE {protein_file, pose_file} \cup
         (IF CognateGiven THEN {Get(cognate_file)} ELSE {})

\* C2: every directive that names a model index names, when it is issued,
\* the index of a model loaded before it, and that model is the entity the
\* directive is meant for: highlights name the protein, the cognate style
\* the cognate, the pose style the poses, the zoom some loaded model.
C2_IndicesNameLoadedModels ==
    \A i \in 1..Len(calls) :
        ~IsNone(calls[i].sel.model) =>
            LET m == Get(calls[i].sel.model) IN
                /\ 0 <= m /\ m < LoadedBefore(i)
                /\ EntityOf(m) \in IntendedEntity(calls[i])

C2_Witness ==
    /\ Returned /\ CognateGiven /\ TruthyList(highlight_residues)
    /\ \E i \in Positions("setStyle") : calls[i].sel = ModelSel(2)
    /\ \E i \in Positions("addStyle") : calls[i].sel.model = Some(0)
    /\ Count("zoomTo") = 1

(* ------------------------------- C3 ------------------------------------ *)
\* C3: with animate=true a returned call has issued the animation-start
\* directive exactly once, with interval 1000, after the pose frames were
\* loaded and styled; with animate=false it is never issued.
C3_AnimateOnce ==
    /\ ~animate => Count("animate") = 0
    /\ Count("animate") <= 1
    /\ \A i \in Positions("animate") :
          /\ calls[i].num = 1000
          /\ \E j \in 1..(i - 1), l \in 1..(i - 1) :
                /\ j < l
                /\ calls[j].op = "addModelsAsFrames"
                /\ calls[j].data.text = pose_file
                /\ IsPoseStyleCall(calls[l])
    /\ (Returned /\ animate) => Count("animate") = 1

C3_Witness ==
    /\ Returned /\ animate /\ Count("animate") = 1
    /\ models[Len(models)].frames = 2


(* ------------------------------- C4 ------------------------------------ *)
\* C4: the zoom directive names the cognate model, index 1, when a cognate
\* file is given, and the pose model, index model_offset + 1 with
\* model_offset = 0, when none is given; it never names model 0.
C4_ZoomTarget ==
    \A i \in Positions("zoomTo") :
        /\ ~IsNone(calls[i].sel.model)
        /\ LET z == Get(calls[i].sel.model) IN
              /\ z # 0
              /\ IF CognateGiven
                 THEN z = 1 /\ EntityOf(z) = Get(cognate_file)
                 ELSE /\ model_offset = 0
                      /\ z = model_offset + 1
                      /\ EntityOf(z) = pose_file

C4_Witness ==
    /\ Returned /\ ~CognateGiven
    /\ \E i \in Positions("zoomTo") : calls[i].sel = ModelSel(1)
    /\ models[2].text = PosePath

(* ------------------------------- C5 ------------------------------------ *)
SphereOverlay ==
    {[rep |-> "sphere",
      opts |-> {<<"color", "magenta">>, <<"opacity", "0.7">>,
                <<"scale", "0.7">>}]}

\* the overlay directives a highlight list asks for
ExpectedHighlights ==
    IF IsNone(highlight_residues) THEN <<>>
    ELSE [j \in 1..Len(Get(highlight_residues)) |->
             [op |-> "addStyle",
              sel |-> [model |-> <<0>>,
                       resi |-> <<ToString(Get(highlight_residues)[j])>>],
              style |-> SphereOverlay,
              data |-> NoData, num |-> 0]]

HighlightCalls == SelectSeq(calls, IsHighlightCall)

\* the highlight loop of the call is over
HighlightsOver ==
    \/ pc \in {"cognate", "style_cognate", "offset", "read_pose", "add_pose",
               "style_frames", "animate", "style_pose", "select_zoom", "zoom",
               "rotate", "return", "done"}
    \/ pc = "raised" /\ Len(calls) > 0

\* C5: the sphere overlays issued are, in list order, one per residue of
\* highlight_residues, each on model 0 at that residue with colour magenta,
\* opacity 0.7 and scale 0.7, whatever animate and the cognate file are;
\* without a list, or with an empty one, none is issued.
C5_OneOverlayPerResidue ==
    /\ Len(HighlightCalls) <= Len(ExpectedHighlights)
    /\ HighlightCalls = SubSeq(ExpectedHighlights, 1, Len(HighlightCalls))
    /\ HighlightsOver => HighlightCalls = ExpectedHighlights
    /\ ~TruthyList(highlight_residues) => HighlightCalls = <<>>

C5_Witness ==
    /\ Returned
    /\ highlight_residues = Some(<<102, 45>>)
    /\ Len(HighlightCalls) = 2
    /\ HighlightCalls[1].sel.resi = Some("102")
    /\ HighlightCalls[2].sel.resi = Some("45")

(* ------------------------------- C6 ------------------------------------ *)
OnlyProteinDirectives ==
    /\ \A i \in 1..Len(calls) :
          \/ IsLoad(calls[i]) /\ calls[i].data.text = protein_file
          \/ IsProteinStyleCall(calls[i])
          \/ IsHighlightCall(calls[i])
    /\ Len(Loads) <= 1

NoPoseDirectives ==
    /\ \A i \in 1..Len(calls) :
          /\ calls[i].op \in {"addModel", "setStyle", "addStyle"}
          /\ IsLoad(calls[i]) => calls[i].data.text # pose_file
          /\ ~IsPoseStyleCall(calls[i])

\* C6: a file read that fails ends the call: the exception leaves the
\* function (nothing runs after it, nothing is returned, the read is not
\* tried again) and no directive that follows the failing read in the body
\* is ever issued.
C6_FailedReadAborts ==
    /\ ~Readable(protein_file) => calls = <<>> /\ reads = <<>> /\ ~Returned
    /\ (CognateGiven /\ ~Readable(Get(cognate_file))) =>
          /\ OnlyProteinDirectives
          /\ Get(cognate_file) \notin Range(reads)
          /\ ~Returned
    /\ ~Readable(pose_file) =>
          /\ NoPoseDirectives
          /\ pose_file \notin Range(reads)
          /\ ~Returned
    /\ pc = "raised" => outcome = "raised" /\ ~ENABLED Next
    /\ outcome = "raised" => pc = "raised"
    /\ Len(Loads) <= Len(reads)

C6_Witness ==
    /\ pc = "raised"
    /\ CognateGiven /\ ~Readable(Get(cognate_file))
    /\ Readable(pose_file)
    /\ Len(calls) = 3 /\ calls[3].op = "addStyle"

(* ------------------------------- C7 ------------------------------------ *)
RequiredReads ==
    {protein_file, pose_file} \cup
    (IF CognateGiven THEN {Get(cognate_file)} ELSE {})

\* C7 as stated: once a styling directive has been issued, every file the
\* call reads has been read.
C7_AllReadsBeforeFirstStyle ==
    (\E i \in 1..Len(calls) : IsStyleCall(calls[i])) =>
        RequiredReads \subseteq Range(reads)

\* C7 as amended: the file a model comes from has been read before any
\* styling directive for that model is issued: the protein file before the
\* protein style and the highlight overlays, the cognate file before the
\* cognate style, the pose file before the pose style.  The cognate and
\* pose files are read after the protein style has been issued.
C7_ReadBeforeOwnStyle ==
    /\ \A i \in 1..Len(calls) :
          /\ IsStyleCall(calls[i]) => protein_file \in Range(reads)
          /\ IsCognateStyleCall(calls[i]) =>
                Get(cognate_file) \in Range(reads)
          /\ IsPoseStyleCall(calls[i]) => pose_file \in Range(reads)
    /\ Len(reads) >= 2 => \E i \in 1..Len(calls) : IsProteinStyleCall(calls[i])

C7_Witness ==
    /\ Returned /\ CognateGiven
    /\ reads = <<ProteinPath, CognatePath, PosePath>>
    /\ \E i \in 1..Len(calls) : IsPoseStyleCall(calls[i])

(* ------------------------------- C8 ------------------------------------ *)
\* C8: a returned call has issued zoomTo on a model and rotate by 270 as
\* its last two directives, in this order, once each; no load, style or
\* animation directive is issued after the zoom.
C8_ZoomThenRotateLast ==
    /\ Count("zoomTo") <= 1
    /\ Count("rotate") <= 1
    /\ \A i \in Positions("zoomTo"), j \in 1..Len(calls) :
          j > i => calls[j].op = "rotate"
    /\ \A i \in Positions("rotate") : i = Len(calls) /\ calls[i].num = 270
    /\ Returned =>
          /\ Len(calls) >= 2
          /\ calls[Len(calls) - 1].op = "zoomTo"
          /\ ~IsNone(calls[Len(calls) - 1].sel.model)
          /\ calls[Len(calls)].op = "rotate"
          /\ calls[Len(calls)].num = 270
          /\ Len(Loads) = Len(ExpectedEntities)

C8_Witness ==
    /\ Returned /\ animate
    /\ calls[Len(calls)].op = "rotate"
    /\ calls[Len(calls) - 1].op = "zoomTo"
    /\ calls[Len(calls) - 2].op = "animate"

(* ------------------------------- C9 ------------------------------------ *)
CognateSchemeAsked ==
    IF IsNone(given.cognate_color) THEN "yellowCarbon"
    ELSE Get(given.cognate_color) \o "Carbon"

PoseSchemeAsked ==
    IF IsNone(given.pose_color) THEN "greenCarbon"
    ELSE Get(given.pose_color) \o "Carbon"

\* C9: the cognate style uses yellow when cognate_color is not given and
\* the given colour otherwise, the pose style green or the given
\* pose_color; a colour scheme appears in no other directive: the cognate's
\* only in the style of model 1, the cognate, the poses' only in the style
\* of the pose model.
C9_Colours ==
    /\ \A i \in 1..Len(calls) :
          HasOpt(calls[i].style, "colorscheme") =>
             \/ /\ IsCognateStyleCall(calls[i])
                /\ CognateGiven
                /\ calls[i].sel = [model |-> <<1>>, resi |-> None]
                /\ Opt(calls[i].style, "colorscheme") = {CognateSchemeAsked}
             \/ /\ IsPoseStyleCall(calls[i])
                /\ calls[i].sel =
                      [model |-> <<IF CognateGiven THEN 2 ELSE 1>>,
                       resi |-> None]
                /\ Opt(calls[i].style, "colorscheme") = {PoseSchemeAsked}
    /\ Returned =>
          /\ Cardinality({i \in 1..Len(calls) : IsPoseStyleCall(calls[i])}) = 1
          /\ Cardinality({i \in 1..Len(calls) : IsCognateStyleCall(calls[i])})
                = (IF CognateGiven THEN 1 ELSE 0)

C9_Witness ==
    /\ Returned /\ CognateGiven
    /\ IsNone(given.cognate_color) /\ given.pose_color = Some("red")
    /\ \E i \in 1..Len(calls) :
          /\ IsCognateStyleCall(calls[i])
          /\ Opt(calls[i].style, "colorscheme") = {"yellowCarbon"}
    /\ \E i \in 1..Len(calls) :
          /\ IsPoseStyleCall(calls[i])
          /\ Opt(calls[i].style, "colorscheme") = {"redCarbon"}

(* ------------------------------- C10 ----------------------------------- *)
BaseStyle ==
    {[rep |-> "cartoon", opts |-> {}],
     [rep |-> "stick", opts |-> {<<"radius", "0.1">>}]}

\* C10: the protein base style is the second directive, issued without a
\* model selector while the protein is the only model; from then on model 0
\* carries cartoon plus stick of radius 0.1, the sphere overlays are added
\* beside it, and no other model ever carries the cartoon style.
C10_ProteinStyleKept ==
    /\ \A i \in 1..Len(calls) :
          IsProteinStyleCall(calls[i]) =>
             /\ i = 2
             /\ calls[i].sel = AllAtoms
             /\ calls[i].style = BaseStyle
             /\ LoadedBefore(i) = 1
    /\ Len(calls) >= 2 =>
          /\ IsProteinStyleCall(calls[2])
          /\ models[1].text = protein_file
          /\ models[1].style = BaseStyle
          /\ models[1].overlays =
                {[resi |-> HighlightCalls[j].sel.resi[1], spec |-> sp] :
                    j \in 1..Len(HighlightCalls), sp \in SphereOverlay}
          /\ \A m \in 2..Len(models) :
                /\ "cartoon" \notin Reps(models[m].style)
                /\ models[m].overlays = {}

C10_Witness ==
    /\ Returned /\ CognateGiven
    /\ Len(HighlightCalls) = 2
    /\ Cardinality(models[1].overlays) = 2
    /\ models[1].style = BaseStyle
    /\ Len(models) = 3

====
